---- MODULE Spec2Model ----
(***************************************************************************)
(* Orchestration fabric of the document-processing system: the gateway,    *)
(* the dispatcher (document_slicer worker), the four analysis workers and  *)
(* the aggregator, connected by broker queues.                             *)
(*                                                                         *)
(* Every consumer registers its callback without a prefetch limit, so the  *)
(* broker hands each delivery to its own coroutine: handlers interleave at *)
(* their await points.  An action below is one run of a handler between    *)
(* two awaits at which another handler can observe or change shared state. *)
(***************************************************************************)
EXTENDS Integers, Sequences, FiniteSets, TLC

\* ---------------------------------------------------------------- bounds
\* Uploads published in the pipeline specification.
MaxUploads == 1
\* Uploads the gateway accepts in the dispatcher specification.
MaxDispatch == 2
\* Task ids the environment of the aggregator specification publishes for.
MaxAggTasks == 1
\* Messages the environment of the aggregator specification publishes in all.
MaxEnvMsgs == 5
\* Uploads another producer publishes without a correlation id.
MaxAnonymous == 1
\* Messages producers publish to one reply queue in the gateway specification
\* (whose uploads are bounded by MaxUploads).
MaxReplies == 4
\* Messages the environment of the merge specification publishes in all.
MaxPartials == 4
\* messages published for the two simultaneous uploads
MaxPairMsgs == 3
\* Section chunks handed to the serializer.
MaxSections == 2
\* Detected tables, their rows in all, and the cells of a row.
MaxTables == 2
MaxRows == 2
MaxCells == 2

\* --------------------------------------------------------------- values
\* Python None / a missing optional field (reply_to, task id).
None == 0

\* A result message without a service field (any falsy service).
NoService == ""

Max(a, b) == IF a > b THEN a ELSE b

\* Task ids: uuid4 strings in the code, all distinct.  A reply queue has the
\* number of the upload that declared it as its name.
GatewayIds == 1..Max(MaxUploads, Max(MaxDispatch, MaxAggTasks))
\* The ids the dispatcher draws for uploads that carry none: uuid4 again,
\* so distinct from every id of the gateway.
AnonIds == {Cardinality(GatewayIds) + i : i \in 1..MaxAnonymous}
TaskIds == GatewayIds \cup AnonIds
Tasks == 1..MaxUploads
DispatchTasks == 1..MaxDispatch
AggTasks == 1..MaxAggTasks

\* The four service tags (aggregator _merge_results defaults).
Services == {"ai_legal", "ai_econom", "sb_ai", "contract_extractor"}

\* A service tag that is none of the four.
OtherService == "custom"

\* The service tags a result message can carry.
ServiceTags == Services \cup {OtherService}

\* expected_services of the init message the dispatcher publishes.
expected_services == {"ai_legal", "ai_econom", "contract_extractor", "sb_ai"}

\* The empty JSON object a missing service is merged as.
EmptyObj == "{}"

\* A dict with no entries.
EmptyMap == [k \in {} |-> EmptyObj]

\* dict[key] = value
Put(m, k, v) == [x \in DOMAIN m \cup {k} |-> IF x = k THEN v ELSE m[x]]

\* A pop that empties the table.
Pop_Clears(m, k) == [x \in {} |-> m[x]]

\* dict.pop(key, None)
Pop(m, k) == [x \in DOMAIN m \ {k} |-> m[x]]

\* A handler that publishes a work item before the init message.
DispatchOrder_LegalFirst == <<"ai_legal", "init", "ai_econom", "contract_extractor">>

\* The order in which handle_upload publishes its four messages.
DispatchOrder == <<"init", "ai_legal", "ai_econom", "contract_extractor">>

VARIABLES
    \* gateway: per upload, the state of upload_document and its response
    gw, gwResp,
    \* broker: the durable queues
    qUpload, qInit, qLegal, qEconom, qExtractor, qSb, qResults,
    \* broker: reply queues by name; rqKind is "absent", "exclusive" or "durable";
    \* replyQ is the messages ready in the gateway's exclusive queue, stranded
    \* counts the messages in a durable queue of that name, which has no consumer
    replyQ, rqKind, stranded,
    \* dispatcher: per task the handler's position and the messages it published
    disp, sent,
    \* workers: work items consumed and result messages published, per task
    consumed, published,
    \* aggregator: self.states, and the result handlers suspended in _publish_final
    states, inflight,
    \* aggregator, observed: final envelopes published per task, the last one
    \* published, the deliveries handled and failed per task, the services
    \* init messages placed in expected, and whether a handled message came
    \* without reply_to
    finalCount, lastFinal, nInit, nRes, nFail, everExpected, sawNone,
    \* environment of the aggregator specification: messages published so far
    envCount, envResults,
    \* other producers: uploads published without a correlation id, and per
    \* reply queue the messages published to it by name
    anonCount, envReplies,
    \* slicer: the arguments of a call (section chunks, specification text,
    \* result of the table detection) and the section map it returned
    sections, blocks_html, spec_result, parts,
    \* dispatcher: the settings object of the worker, and the parts the three
    \* work items of an upload carry
    settings, work_items,
    \* broker: per consumer, the deliveries it acknowledged and rejected
    settled

gwVars == <<gw, gwResp>>
brokerReply == <<replyQ, rqKind, stranded>>
dispVars == <<disp, sent>>
workVars == <<consumed, published>>
workQueues == <<qLegal, qEconom, qExtractor, qSb>>
aggLog == <<nInit, nRes, nFail, everExpected, sawNone>>
aggVars == <<states, inflight, finalCount, lastFinal, aggLog>>
envVars == <<envCount, envResults, anonCount, envReplies>>
sliceVars == <<sections, blocks_html, spec_result, parts, settings, work_items>>
vars == <<gw, gwResp, qUpload, qInit, qLegal, qEconom, qExtractor, qSb, qResults,
          replyQ, rqKind, stranded, disp, sent, consumed, published, states, inflight,
          finalCount, lastFinal, nInit, nRes, nFail, everExpected, sawNone,
          envCount, envResults, anonCount, envReplies,
          sections, blocks_html, spec_result, parts, settings, work_items,
          settled>>

\* The consumers of the durable queues: the dispatcher, the four workers and
\* the aggregator's two callbacks.
Consumers ==
    {"document_slicer", "ai_legal", "ai_econom", "contract_extractor", "sb_ai",
     "_handle_init", "_handle_result"}

\* No delivery settled yet.
NoDeliveries == [acked |-> 0, rejected |-> 0]

\* message.process() left normally: the delivery is acknowledged.
Acked(consumer) == [settled EXCEPT ![consumer].acked = @ + 1]

\* A process scope that acknowledges the delivery however it is left.
Rejected_Acknowledges(consumer) == [settled EXCEPT ![consumer].acked = @ + 1]

\* message.process() left by an exception: the delivery is rejected.
Rejected(consumer) == [settled EXCEPT ![consumer].rejected = @ + 1]

\* No final envelope published yet.
NoFinal == [task_id |-> None, reply_to |-> None, result |-> EmptyMap, expected |-> {},
            received |-> EmptyMap, live |-> FALSE, seen |-> EmptyMap]

\* The state a detached handler holds no copy of.
NoSnap == [expected |-> {}, reply_to |-> None, results |-> EmptyMap]

\* No section map returned yet.
NoParts == EmptyMap

\* No message published to a reply queue by another producer.
NoReplies == [total |-> 0, first |-> 0]

PipelineInit ==
    /\ gw = [t \in TaskIds |-> "idle"]
    /\ gwResp = [t \in TaskIds |-> EmptyMap]
    /\ qUpload = <<>> /\ qInit = <<>> /\ qLegal = <<>> /\ qEconom = <<>>
    /\ qExtractor = <<>> /\ qSb = <<>> /\ qResults = <<>>
    /\ replyQ = [n \in TaskIds |-> <<>>]
    /\ rqKind = [n \in TaskIds |-> "absent"]
    /\ stranded = [n \in TaskIds |-> 0]
    /\ disp = [t \in TaskIds |-> [pc |-> "idle", reply_to |-> None,
                                   persist |-> "none"]]
    /\ sent = [t \in TaskIds |-> <<>>]
    /\ consumed = [t \in TaskIds |-> [s \in Services |-> 0]]
    /\ published = [t \in TaskIds |-> [s \in Services |-> 0]]
    /\ states = EmptyMap
    /\ inflight = <<>>
    /\ finalCount = [t \in TaskIds |-> 0]
    /\ lastFinal = NoFinal
    /\ nInit = [t \in TaskIds |-> 0]
    /\ nRes = [t \in TaskIds |-> [s \in ServiceTags |-> 0]]
    /\ nFail = [t \in TaskIds |-> 0]
    /\ everExpected = [t \in TaskIds |-> {}]
    /\ sawNone = [t \in TaskIds |-> FALSE]
    /\ envCount = 0
    /\ envResults = [t \in TaskIds |-> [s \in ServiceTags |-> 0]]
    /\ anonCount = 0
    /\ envReplies = [n \in TaskIds |-> NoReplies]
    /\ settled = [c \in Consumers |-> NoDeliveries]

\* No table detection has run.
NoSpecResult == [raised |-> FALSE, tables |-> <<>>]

\* No settings object constructed or handed over yet.
NoSettings == [state |-> "none", ai_econom_sections |-> {},
               contract_extractor_sections_legacy |-> {}]

\* No work items built yet.
NoItems == [legal |-> [parts |-> EmptyMap], econom |-> [parts |-> EmptyMap],
            extractor |-> [sections |-> EmptyMap]]

\* The slicer's arguments and the dispatcher's settings before any call.
SlicerIdle ==
    /\ sections = <<>> /\ blocks_html = <<>> /\ spec_result = NoSpecResult
    /\ settings = NoSettings /\ work_items = NoItems

Init ==
    /\ PipelineInit
    /\ SlicerIdle
    /\ parts = NoParts

\* ---------------------------------------------------------------- slicer
\* A text is the sequence of its characters.

\* The characters str.strip() removes.
Whitespace == {" ", "\n"}

RECURSIVE lstrip(_)
lstrip(s) == IF s /= <<>> /\ Head(s) \in Whitespace THEN lstrip(Tail(s)) ELSE s

RECURSIVE rstrip(_)
rstrip(s) ==
    IF s /= <<>> /\ s[Len(s)] \in Whitespace
    THEN rstrip(SubSeq(s, 1, Len(s) - 1)) ELSE s

\* str.strip()
strip(s) == rstrip(lstrip(s))

\* sep.join(items)
RECURSIVE join(_, _)
join(sep, items) ==
    IF items = <<>> THEN <<>>
    ELSE IF Len(items) = 1 THEN items[1]
    ELSE items[1] \o sep \o join(sep, Tail(items))

\* (x for x in items if x)
Truthy(items) == SelectSeq(items, LAMBDA x : x /= <<>>)

\* SectionChunk.number of a chunk without a number (None); the numbers of
\* headings are not negative.
NoNumber == -1

\* f"part_{index}"
PartKey(index) == "part_" \o ToString(index)

\* serialize line 31: the 17 keys, each with the empty text.
EmptyPayload == [k \in {PartKey(index) : index \in 0..16} |-> <<>>]

\* The loop body of serialize skipped by "continue".
NoKey == ""

\* A serializer that takes the number 0 for the header.
SectionKey_ZeroIsHeader(number) ==
    IF number = NoNumber \/ number = 0 THEN "part_0"
    ELSE IF 1 <= number /\ number <= 15 THEN PartKey(number)
    ELSE NoKey

\* serialize lines 34-39: the key a chunk is written to.
SectionKey(number) ==
    IF number = NoNumber THEN "part_0"
    ELSE IF 1 <= number /\ number <= 15 THEN PartKey(number)
    ELSE NoKey

\* A serializer that puts a blank line between title and body.
_section_to_text_BlankLine(section) ==
    LET titled == IF section.title /= <<>> THEN <<strip(section.title)>> ELSE <<>>
        both == IF section.content /= <<>>
                THEN Append(titled, strip(section.content)) ELSE titled
    IN join(<<"\n", "\n">>, Truthy(both))

\* A serializer that joins title and body as they come.
_section_to_text_Unstripped(section) ==
    LET titled == IF section.title /= <<>> THEN <<section.title>> ELSE <<>>
        both == IF section.content /= <<>>
                THEN Append(titled, section.content) ELSE titled
    IN join(<<"\n">>, Truthy(both))

\* SectionSerializer._section_to_text
_section_to_text(section) ==
    LET titled == IF section.title /= <<>> THEN <<strip(section.title)>> ELSE <<>>
        both == IF section.content /= <<>>
                THEN Append(titled, strip(section.content)) ELSE titled
    IN join(<<"\n">>, Truthy(both))

\* A serializer whose later chunk replaces what the key holds.
AppendText_Overwrites(existing, section_text) == section_text

\* serialize lines 45-48: the new value of a key that holds existing.
AppendText(existing, section_text) ==
    join(<<"\n", "\n">>, Truthy(<<strip(existing), section_text>>))

\* serialize lines 33-48: the payload after the chunks of secs.
RECURSIVE SerializeSections(_, _)
SerializeSections(payload, secs) ==
    IF secs = <<>> THEN payload
    ELSE LET section == Head(secs)
             key == SectionKey(section.number)
             section_text == _section_to_text(section)
             next == IF key = NoKey \/ section_text = <<>> THEN payload
                     ELSE Put(payload, key, AppendText(payload[key], section_text))
         IN SerializeSections(next, Tail(secs))

\* SectionSerializer.serialize
serialize(secs, html) ==
    Put(SerializeSections(EmptyPayload, secs), "part_16", strip(html))

\* "TABLE: "
TABLE == <<"T", "A", "B", "L", "E", ":", " ">>

\* An extractor that joins the cells as they come.
RowText_Unstripped(row) == join(<<" ", "|", " ">>, row)

\* extract line 64: " | ".join(cell.strip() for cell in row)
RowText(row) == join(<<" ", "|", " ">>, [i \in 1..Len(row) |-> strip(row[i])])

\* extract lines 61-65: one line per row of each table, in order.  A table
\* is the sequence of its rows (empty for rows = None).
RECURSIVE TableLines(_)
TableLines(ts) ==
    IF ts = <<>> THEN <<>>
    ELSE [i \in 1..Len(Head(ts)) |-> TABLE \o RowText(Head(ts)[i])]
            \o TableLines(Tail(ts))

\* An extractor that returns the lines rendered before the exception.
extract_PartialLines(result) == join(<<"\n">>, TableLines(result.tables))

\* SpecificationExtractor.extract: the lines joined by newlines, or the
\* empty text when the detection or the rendering raised (result.tables are
\* then the tables reached before the exception).
extract(result) ==
    IF result.raised THEN <<>> ELSE join(<<"\n">>, TableLines(result.tables))

\* --- the inputs of the slicer's functions
\* Titles, bodies and specification texts: none, blank, padded.
Texts == {<<>>, <<" ">>, <<" ", "a", " ">>}
\* Table cells: empty, padded.
CellTexts == {<<>>, <<" ", "a", " ">>}
SectionNumbers == {NoNumber, 0, 1, 15, 16}
SectionChunks == [number : SectionNumbers, title : Texts, content : Texts]
\* The lists of at most max chunks.
SectionLists(max) == UNION {[1..n -> SectionChunks] : n \in 0..max}

Rows == UNION {[1..n -> CellTexts] : n \in 0..MaxCells}
\* The lists of at most max rows.
RowLists(max) == UNION {[1..n -> Rows] : n \in 0..max}

RECURSIVE Sum(_)
Sum(sizes) == IF sizes = <<>> THEN 0 ELSE Head(sizes) + Sum(Tail(sizes))

\* The ways to cut n rows into at most MaxTables tables, by their sizes.
Cuts(n) == {sizes \in UNION {[1..k -> 0..n] : k \in 0..MaxTables} : Sum(sizes) = n}

\* The tables of the given sizes holding the rows of flat, in order.
RECURSIVE Cut(_, _)
Cut(flat, sizes) ==
    IF sizes = <<>> THEN <<>>
    ELSE <<SubSeq(flat, 1, Head(sizes))>>
            \o Cut(SubSeq(flat, Head(sizes) + 1, Len(flat)), Tail(sizes))

\* The lists of at most MaxTables tables with at most max rows in all.
TableLists(max) ==
    UNION {{Cut(flat, sizes) : sizes \in Cuts(Len(flat))} : flat \in RowLists(max)}

\* serialize called on any chunks and any specification text.
SerializeInit ==
    /\ PipelineInit
    /\ sections \in SectionLists(MaxSections)
    /\ blocks_html = <<>> /\ spec_result = NoSpecResult
    /\ settings = NoSettings /\ work_items = NoItems
    /\ parts = NoParts

serialize_call ==
    /\ parts = NoParts
    /\ \E html \in Texts :
         /\ blocks_html' = html
         /\ parts' = serialize(sections, html)
    /\ UNCHANGED <<gwVars, qUpload, qInit, workQueues, qResults, brokerReply,
                   dispVars, workVars, aggVars, envVars, sections, spec_result,
                   settings, work_items, settled>>

SerializeSpec == SerializeInit /\ [][serialize_call]_vars

\* The chunks split_into_sections hands to extract_parts here: none, one
\* numbered section, one section beyond the fifteenth.
ExtractSections ==
    {<<>>} \cup {<<[number |-> n, title |-> <<>>, content |-> <<" ", "a", " ">>]>> :
                    n \in {1, 16}}

\* extract_parts lines 95-97 on any chunks and any result of the table
\* detection: the tables it found, with or without an exception raised
\* while they were detected or rendered.
ExtractInit ==
    /\ PipelineInit
    /\ sections \in ExtractSections /\ blocks_html = <<>>
    /\ spec_result \in [raised : BOOLEAN, tables : TableLists(MaxRows)]
    /\ settings = NoSettings /\ work_items = NoItems
    /\ parts = NoParts

extract_parts ==
    /\ parts = NoParts
    /\ blocks_html' = extract(spec_result)
    /\ parts' = serialize(sections, extract(spec_result))
    /\ UNCHANGED <<gwVars, qUpload, qInit, workQueues, qResults, brokerReply,
                   dispVars, workVars, aggVars, envVars, sections, spec_result,
                   settings, work_items, settled>>

ExtractSpec == ExtractInit /\ [][extract_parts]_vars

\* ------------------------------------------------------------ aggregator

\* A merge that keeps the four fixed keys only.
_merge_results_KnownOnly(results) ==
    [k \in Services |-> IF k \in DOMAIN results THEN results[k] ELSE EmptyObj]

\* Aggregator._merge_results: the four fixed keys with empty-object defaults,
\* overlaid with the received results.
_merge_results(results) ==
    [k \in Services \cup DOMAIN results |->
        IF k \in DOMAIN results THEN results[k] ELSE EmptyObj]

\* An aggregator whose init replaces the expected set of an existing state.
_ensure_state_Replaces(table, task_id, reply_to, expected) ==
    IF task_id \in DOMAIN table
    THEN [table EXCEPT ![task_id] =
            [@ EXCEPT !.reply_to = IF reply_to /= None THEN reply_to ELSE @,
                      !.expected = expected]]
    ELSE Put(table, task_id,
             [expected |-> expected, reply_to |-> reply_to, results |-> EmptyMap])

\* Aggregator._ensure_state: the state table after the call.  An existing
\* state takes a truthy reply_to and the union with a non-empty expected; a
\* missing one is created.
_ensure_state(table, task_id, reply_to, expected) ==
    IF task_id \in DOMAIN table
    THEN [table EXCEPT ![task_id] =
            [@ EXCEPT !.reply_to = IF reply_to /= None THEN reply_to ELSE @,
                      !.expected = @ \cup expected]]
    ELSE Put(table, task_id,
             [expected |-> expected, reply_to |-> reply_to, results |-> EmptyMap])

\* A handler that lacks the test of line 65 and keeps a state under the
\* missing task id.
_handle_init_KeysNone ==
    /\ qInit /= <<>>
    /\ LET m == Head(qInit) IN
       /\ qInit' = Tail(qInit)
       /\ states' = _ensure_state(states, m.task_id, m.reply_to, m.expected_services)
       /\ IF m.task_id = None
          THEN UNCHANGED <<nInit, everExpected, sawNone>>
          ELSE /\ nInit' = [nInit EXCEPT ![m.task_id] = @ + 1]
               /\ everExpected' = [everExpected EXCEPT ![m.task_id] =
                                      @ \cup m.expected_services]
               /\ sawNone' = [sawNone EXCEPT ![m.task_id] = @ \/ m.reply_to = None]
    /\ settled' = Acked("_handle_init")
    /\ UNCHANGED <<gwVars, qUpload, workQueues, qResults, brokerReply, dispVars,
                   workVars, inflight, finalCount, lastFinal, nRes, nFail, envVars, sliceVars>>

\* Aggregator._handle_init: one delivery from the aggregation queue.  The
\* handler has no await before its state change, so it is one step.
_handle_init ==
    /\ qInit /= <<>>
    /\ LET m == Head(qInit) IN
       /\ qInit' = Tail(qInit)
       /\ IF m.task_id = None
          THEN UNCHANGED <<states, nInit, everExpected, sawNone>>
          ELSE /\ states' = _ensure_state(states, m.task_id, m.reply_to,
                                          m.expected_services)
               /\ nInit' = [nInit EXCEPT ![m.task_id] = @ + 1]
               /\ everExpected' = [everExpected EXCEPT ![m.task_id] =
                                      @ \cup m.expected_services]
               /\ sawNone' = [sawNone EXCEPT ![m.task_id] = @ \/ m.reply_to = None]
    /\ settled' = Acked("_handle_init")
    /\ UNCHANGED <<gwVars, qUpload, workQueues, qResults, brokerReply, dispVars,
                   workVars, inflight, finalCount, lastFinal, nRes, nFail, envVars, sliceVars>>

\* The state object a suspended result handler holds: the table's object
\* while it is still the one in the table, else the object as it was when
\* it was popped.
HeldState(h) == IF h.live THEN states[h.task_id] ELSE h.snap

\* self.states.pop(task_id, None) of the object popped: the handlers still
\* holding it keep it as it is now (only a handler that has yet to build its
\* envelope reads it again).
Detach(hs, task_id, popped) ==
    [i \in DOMAIN hs |->
        IF hs[i].task_id = task_id /\ hs[i].live
        THEN [hs[i] EXCEPT !.live = FALSE,
                           !.snap = IF hs[i].pc = "declare" THEN popped ELSE NoSnap]
        ELSE hs[i]]

\* Sequence s without its i-th element.
RemoveAt(s, i) == SubSeq(s, 1, i - 1) \o SubSeq(s, i + 1, Len(s))

\* A handler that keeps the first payload of a service.
StoreResult_FirstWins(table, m) ==
    LET t1 == _ensure_state(table, m.task_id, m.reply_to, {}) IN
    [t1 EXCEPT ![m.task_id] =
        [@ EXCEPT !.results = IF m.service \in DOMAIN @ THEN @
                              ELSE Put(@, m.service, m.payload),
                  !.expected = @ \ {m.service}]]

\* The state after lines 79-83 of _handle_result: the payload stored under
\* its service, the service removed from expected.
StoreResult(table, m) ==
    LET t1 == _ensure_state(table, m.task_id, m.reply_to, {}) IN
    [t1 EXCEPT ![m.task_id] =
        [@ EXCEPT !.results = Put(@, m.service, m.payload),
                  !.expected = @ \ {m.service}]]

\* Aggregator._handle_result up to its first await: store the partial; when
\* expected is empty enter _publish_final, which returns at once without a
\* reply_to (the state is then popped in the same step) and otherwise
\* suspends in declare_queue.
_handle_result ==
    /\ qResults /= <<>>
    /\ LET m == Head(qResults) IN
       /\ qResults' = Tail(qResults)
       /\ IF m.task_id = None \/ m.service = NoService
          THEN /\ settled' = Acked("_handle_result")
               /\ UNCHANGED <<states, inflight, nRes, sawNone>>
          ELSE LET t2 == StoreResult(states, m)
                   st == t2[m.task_id] IN
               /\ nRes' = [nRes EXCEPT ![m.task_id][m.service] = @ + 1]
               /\ sawNone' = [sawNone EXCEPT ![m.task_id] = @ \/ m.reply_to = None]
               /\ IF st.expected /= {}
                  THEN /\ states' = t2
                       /\ settled' = Acked("_handle_result")
                       /\ UNCHANGED inflight
                  ELSE IF st.reply_to = None
                  THEN /\ states' = Pop(t2, m.task_id)
                       /\ inflight' = Detach(inflight, m.task_id, st)
                       /\ settled' = Acked("_handle_result")
                  ELSE /\ states' = t2
                       /\ inflight' = Append(inflight,
                              [task_id |-> m.task_id, pc |-> "declare",
                               reply_to |-> st.reply_to, live |-> TRUE,
                               snap |-> NoSnap])
                       /\ UNCHANGED settled
    /\ UNCHANGED <<gwVars, qUpload, qInit, workQueues, brokerReply, dispVars,
                   workVars, finalCount, lastFinal, nInit, nFail, everExpected,
                   envVars, sliceVars>>

\* The final envelope _publish_final builds from the held state once
\* declare_queue has returned, with the state's expected set and received
\* results as they are at that moment, whether the state is still the one in
\* the table, and the number of results handled so far per service.
FinalEnvelope(h) ==
    [task_id |-> h.task_id, reply_to |-> h.reply_to,
     result |-> _merge_results(HeldState(h).results),
     expected |-> HeldState(h).expected,
     received |-> HeldState(h).results,
     live |-> h.live, seen |-> nRes[h.task_id]]

\* Aggregator._publish_final, lines 34-47: declare_queue(reply_to,
\* durable=True) returns (creating the queue when the broker has none of
\* that name), the envelope is built from the state as it is now and
\* published; the handler then waits for the publish to return.
_publish_final(i) ==
    /\ i \in DOMAIN inflight
    /\ inflight[i].pc = "declare"
    /\ LET h == inflight[i]
           env == FinalEnvelope(h) IN
       /\ IF rqKind[h.reply_to] = "exclusive"
          THEN /\ replyQ' = [replyQ EXCEPT ![h.reply_to] =
                     Append(@, [correlation_id |-> h.task_id,
                                body |-> [task_id |-> h.task_id,
                                          result |-> env.result]])]
               /\ UNCHANGED <<rqKind, stranded>>
          ELSE /\ rqKind' = [rqKind EXCEPT ![h.reply_to] = "durable"]
               /\ stranded' = [stranded EXCEPT ![h.reply_to] = @ + 1]
               /\ UNCHANGED replyQ
       /\ finalCount' = [finalCount EXCEPT ![h.task_id] = @ + 1]
       /\ lastFinal' = env
       /\ inflight' = [inflight EXCEPT ![i] = [@ EXCEPT !.pc = "publish",
                                                        !.snap = NoSnap]]
    /\ UNCHANGED <<gwVars, qUpload, qInit, workQueues, qResults, dispVars, workVars,
                   states, aggLog, envVars, sliceVars, settled>>

\* _publish_final raises (the broker refuses the declaration or the publish
\* fails): the exception leaves _handle_result before the pop, the delivery
\* is rejected, the state stays in the table.
_publish_final_raises(i) ==
    /\ i \in DOMAIN inflight
    /\ inflight[i].pc = "declare"
    /\ inflight' = RemoveAt(inflight, i)
    /\ nFail' = [nFail EXCEPT ![inflight[i].task_id] = @ + 1]
    /\ settled' = Rejected("_handle_result")
    /\ UNCHANGED <<gwVars, qUpload, qInit, workQueues, qResults, brokerReply,
                   dispVars, workVars, states, finalCount, lastFinal, nInit, nRes,
                   everExpected, sawNone, envVars, sliceVars>>

\* A handler that returns after the publish and leaves the state.
_handle_result_pop_Keeps(i) ==
    /\ i \in DOMAIN inflight
    /\ inflight[i].pc = "publish"
    /\ inflight' = RemoveAt(inflight, i)
    /\ settled' = Acked("_handle_result")
    /\ UNCHANGED <<gwVars, qUpload, qInit, workQueues, qResults, brokerReply,
                   dispVars, workVars, states, finalCount, lastFinal, aggLog,
                   envVars, sliceVars>>

\* _handle_result line 87, after the publish returned:
\* self.states.pop(task_id, None), then the delivery is acknowledged.
_handle_result_pop(i) ==
    /\ i \in DOMAIN inflight
    /\ inflight[i].pc = "publish"
    /\ states' = Pop(states, inflight[i].task_id)
    /\ inflight' = IF inflight[i].task_id \in DOMAIN states
                   THEN Detach(RemoveAt(inflight, i), inflight[i].task_id,
                               states[inflight[i].task_id])
                   ELSE RemoveAt(inflight, i)
    /\ settled' = Acked("_handle_result")
    /\ UNCHANGED <<gwVars, qUpload, qInit, workQueues, qResults, brokerReply,
                   dispVars, workVars, finalCount, lastFinal, aggLog, envVars, sliceVars>>

\* -------------------------------------------- environment of the aggregator

\* Some publisher puts an init message on the aggregation queue.  It
\* publishes into an empty queue only: the aggregator is the queue's one
\* consumer and takes deliveries in queue order, so every order of
\* deliveries is still produced.
EnvInit ==
    \E t \in AggTasks : \E r \in {None, t}, e \in {expected_services, {}} :
        /\ envCount < MaxEnvMsgs
        /\ qInit = <<>>
        /\ envCount' = envCount + 1
        /\ qInit' = Append(qInit, [task_id |-> t, reply_to |-> r,
                                   expected_services |-> e])
        /\ UNCHANGED <<gwVars, qUpload, workQueues, qResults, brokerReply,
                       dispVars, workVars, aggVars, envResults, anonCount,
                       envReplies, sliceVars, settled>>

\* Some publisher puts a result message on the results queue; the first
\* one for a (task, service) pair carries the payload "ok", a later one
\* "again".
EnvResult ==
    \E t \in AggTasks : \E s \in Services, r \in {None, t} :
        /\ envCount < MaxEnvMsgs
        /\ qResults = <<>>
        /\ envCount' = envCount + 1
        /\ envResults' = [envResults EXCEPT ![t][s] = @ + 1]
        /\ qResults' = Append(qResults,
              [task_id |-> t, reply_to |-> r, service |-> s,
               payload |-> IF envResults[t][s] = 0 THEN "ok" ELSE "again"])
        /\ UNCHANGED <<gwVars, qUpload, qInit, workQueues, brokerReply,
                       dispVars, workVars, aggVars, anonCount, envReplies,
                       sliceVars, settled>>

AggNext ==
    \/ EnvInit
    \/ EnvResult
    \/ _handle_init
    \/ _handle_result
    \/ \E i \in 1..Len(inflight) : _publish_final(i)
    \/ \E i \in 1..Len(inflight) : _handle_result_pop(i)

\* The aggregator under any publisher of init and result messages, with a
\* broker that accepts every declaration and publish.
AggSpec == Init /\ [][AggNext]_vars

\* The task the environment of the merge specification publishes for.
MergeTask == CHOOSE t \in GatewayIds : \A u \in GatewayIds : t <= u

\* Some publisher puts an init message for the task on the aggregation
\* queue, expecting no service or two of them.
EnvTaggedInit ==
    \E r \in {None, MergeTask}, e \in {{}, {"ai_legal", "ai_econom"}} :
        /\ envCount < MaxPartials
        /\ qInit = <<>>
        /\ envCount' = envCount + 1
        /\ qInit' = Append(qInit, [task_id |-> MergeTask, reply_to |-> r,
                                   expected_services |-> e])
        /\ UNCHANGED <<gwVars, qUpload, workQueues, qResults, brokerReply,
                       dispVars, workVars, aggVars, envResults, anonCount,
                       envReplies, sliceVars, settled>>

\* Some publisher puts a result message for the task on the results queue,
\* tagged with an expected service or with a tag of its own; the first one
\* for a tag carries the payload "ok", a later one "again".
EnvTaggedResult ==
    \E s \in {"ai_legal", "ai_econom", OtherService}, r \in {None, MergeTask} :
        /\ envCount < MaxPartials
        /\ qResults = <<>>
        /\ envCount' = envCount + 1
        /\ envResults' = [envResults EXCEPT ![MergeTask][s] = @ + 1]
        /\ qResults' = Append(qResults,
              [task_id |-> MergeTask, reply_to |-> r, service |-> s,
               payload |-> IF envResults[MergeTask][s] = 0 THEN "ok" ELSE "again"])
        /\ UNCHANGED <<gwVars, qUpload, qInit, workQueues, brokerReply,
                       dispVars, workVars, aggVars, anonCount, envReplies,
                       sliceVars, settled>>

\* Some publisher puts a message on one of the aggregator's queues that
\* names no task (neither task_id nor correlation id), or a result without
\* a service field.
EnvUnattributable ==
    /\ envCount < MaxPartials
    /\ envCount' = envCount + 1
    /\ \E r \in {None, MergeTask} :
         \/ /\ qInit = <<>>
            /\ qInit' = Append(qInit, [task_id |-> None, reply_to |-> r,
                                       expected_services |-> {"ai_legal"}])
            /\ UNCHANGED qResults
         \/ /\ qResults = <<>>
            /\ \E m \in {[task_id |-> None, service |-> "ai_legal"],
                          [task_id |-> MergeTask, service |-> NoService],
                          [task_id |-> None, service |-> NoService]} :
                 qResults' = Append(qResults,
                     [task_id |-> m.task_id, reply_to |-> r, service |-> m.service,
                      payload |-> "ok"])
            /\ UNCHANGED qInit
    /\ UNCHANGED <<gwVars, qUpload, workQueues, brokerReply, dispVars, workVars,
                   aggVars, envResults, anonCount, envReplies, sliceVars, settled>>

StrayNext ==
    \/ EnvTaggedInit
    \/ EnvTaggedResult
    \/ EnvUnattributable
    \/ _handle_init
    \/ _handle_result
    \/ \E i \in 1..Len(inflight) : _publish_final(i)
    \/ \E i \in 1..Len(inflight) : _handle_result_pop(i)

\* The aggregator under a publisher of init and result messages for one
\* task and of messages that cannot be attributed to a task.
StraySpec == Init /\ [][StrayNext]_vars

MergeNext ==
    \/ EnvTaggedInit
    \/ EnvTaggedResult
    \/ _handle_init
    \/ _handle_result
    \/ \E i \in 1..Len(inflight) : _publish_final(i)
    \/ \E i \in 1..Len(inflight) : _publish_final_raises(i)
    \/ \E i \in 1..Len(inflight) : _handle_result_pop(i)

\* The aggregator under a publisher of init and result messages for one
\* task, unknown service tags included, with a broker that can refuse.
MergeSpec == Init /\ [][MergeNext]_vars

\* --------------------------------------------------------------- gateway

\* A gateway whose uploads all wait on the reply queue of the first one.
upload_document_SharedQueue(t) ==
    /\ gw[t] = "idle"
    /\ \A u \in GatewayIds : u < t => gw[u] /= "idle"
    /\ \E empty \in BOOLEAN :
        IF empty
        THEN /\ gw' = [gw EXCEPT ![t] = "400"]
             /\ UNCHANGED <<qUpload, rqKind>>
        ELSE /\ gw' = [gw EXCEPT ![t] = "waiting"]
             /\ rqKind' = [rqKind EXCEPT ![MergeTask] = "exclusive"]
             /\ qUpload' = Append(qUpload,
                    [task_id |-> t, reply_to |-> MergeTask, content |-> TRUE])
    /\ UNCHANGED <<gwResp, qInit, workQueues, qResults, replyQ, stranded, dispVars,
                   workVars, aggVars, envVars, sliceVars, settled>>

\* A gateway that opens its reply queue before it looks at the body.
upload_document_DeclaresFirst(t) ==
    /\ gw[t] = "idle"
    /\ \A u \in GatewayIds : u < t => gw[u] /= "idle"
    /\ rqKind' = [rqKind EXCEPT ![t] = "exclusive"]
    /\ \E empty \in BOOLEAN :
        IF empty
        THEN /\ gw' = [gw EXCEPT ![t] = "400"]
             /\ UNCHANGED qUpload
        ELSE /\ gw' = [gw EXCEPT ![t] = "waiting"]
             /\ qUpload' = Append(qUpload,
                    [task_id |-> t, reply_to |-> t, content |-> TRUE])
    /\ UNCHANGED <<gwResp, qInit, workQueues, qResults, replyQ, stranded, dispVars,
                   workVars, aggVars, envVars, sliceVars, settled>>

\* upload_document up to _await_response: an empty body is answered 400
\* before any broker call; otherwise a fresh task id is drawn (uploads take
\* the ids in order), the exclusive reply queue is declared and the upload
\* message is published with the queue's name as reply_to.
upload_document(t) ==
    /\ gw[t] = "idle"
    /\ \A u \in GatewayIds : u < t => gw[u] /= "idle"
    /\ \E empty \in BOOLEAN :
        IF empty
        THEN /\ gw' = [gw EXCEPT ![t] = "400"]
             /\ UNCHANGED <<qUpload, rqKind>>
        ELSE /\ gw' = [gw EXCEPT ![t] = "waiting"]
             /\ rqKind' = [rqKind EXCEPT ![t] = "exclusive"]
             /\ qUpload' = Append(qUpload,
                    [task_id |-> t, reply_to |-> t, content |-> TRUE])
    /\ UNCHANGED <<gwResp, qInit, workQueues, qResults, replyQ, stranded, dispVars,
                   workVars, aggVars, envVars, sliceVars, settled>>

\* Some producer publishes a JSON message to the gateway's reply queue by
\* its name, with no correlation id, the upload's, or that of another task
\* (uuid4 strings differ, and they all differ from t alike); the body tells the id and the
\* message's number on this queue.  envReplies remembers the number of the
\* first one that carries the upload's id.
publish_reply(t) ==
    /\ rqKind[t] = "exclusive"
    /\ envReplies[t].total < MaxReplies
    /\ \E c \in {None, t, CHOOSE u \in TaskIds : u /= t} :
         LET n == envReplies[t].total + 1 IN
         /\ replyQ' = [replyQ EXCEPT ![t] =
                Append(@, [correlation_id |-> c,
                           body |-> [correlation_id |-> c, nth |-> n]])]
         /\ envReplies' = [envReplies EXCEPT ![t] =
                [total |-> n,
                 first |-> IF c = t /\ @.first = 0 THEN n ELSE @.first]]
    /\ UNCHANGED <<gwVars, qUpload, qInit, workQueues, qResults, rqKind, stranded,
                   dispVars, workVars, aggVars, envCount, envResults, anonCount,
                   sliceVars, settled>>

\* A consumer callback without the correlation filter.
_on_message_AnyCorrelation(t) ==
    /\ gw[t] = "waiting"
    /\ replyQ[t] /= <<>>
    /\ gw' = [gw EXCEPT ![t] = "200"]
    /\ gwResp' = [gwResp EXCEPT ![t] = Head(replyQ[t]).body]
    /\ replyQ' = [replyQ EXCEPT ![t] = <<>>]
    /\ rqKind' = [rqKind EXCEPT ![t] = "absent"]
    /\ UNCHANGED <<qUpload, qInit, workQueues, qResults, stranded, dispVars, workVars,
                   aggVars, envVars, sliceVars, settled>>

\* _await_response._on_message: a delivery from the reply queue.  One with
\* another correlation id is left unacknowledged; the first one with the
\* upload's id resolves the future, upload_document returns it (200) and
\* leaving the connection's scope deletes the exclusive queue.
_on_message(t) ==
    /\ gw[t] = "waiting"
    /\ replyQ[t] /= <<>>
    /\ LET m == Head(replyQ[t]) IN
        IF m.correlation_id /= t
        THEN /\ replyQ' = [replyQ EXCEPT ![t] = Tail(@)]
             /\ UNCHANGED <<gw, gwResp, rqKind>>
        ELSE /\ gw' = [gw EXCEPT ![t] = "200"]
             /\ gwResp' = [gwResp EXCEPT ![t] = m.body]
             /\ replyQ' = [replyQ EXCEPT ![t] = <<>>]
             /\ rqKind' = [rqKind EXCEPT ![t] = "absent"]
    /\ UNCHANGED <<qUpload, qInit, workQueues, qResults, stranded, dispVars, workVars,
                   aggVars, envVars, sliceVars, settled>>

\* asyncio.wait_for runs out before the future is resolved: upload_document
\* answers 504 and the connection is closed, which deletes the reply queue
\* with whatever it holds.
_await_response_timeout(t) ==
    /\ gw[t] = "waiting"
    /\ gw' = [gw EXCEPT ![t] = "504"]
    /\ replyQ' = [replyQ EXCEPT ![t] = <<>>]
    /\ rqKind' = [rqKind EXCEPT ![t] = "absent"]
    /\ UNCHANGED <<gwResp, qUpload, qInit, workQueues, qResults, stranded, dispVars,
                   workVars, aggVars, envVars, sliceVars, settled>>

\* ------------------------------------------------------------ dispatcher

\* A publish that passes no reply_to on.
WorkItem_NoReplyTo(t, r) == [task_id |-> t, reply_to |-> None]

\* A message on a durable queue, as _publish_message sends it: the task id
\* as correlation id and the caller's reply_to.
WorkItem(t, r) == [task_id |-> t, reply_to |-> r]

\* Another producer publishes an upload message with neither correlation
\* id nor reply_to.
publish_anonymous_upload ==
    /\ anonCount < MaxAnonymous
    /\ anonCount' = anonCount + 1
    /\ qUpload' = Append(qUpload,
                         [task_id |-> None, reply_to |-> None, content |-> TRUE])
    /\ UNCHANGED <<gwVars, qInit, workQueues, qResults, brokerReply, dispVars,
                   workVars, aggVars, envCount, envResults, envReplies, sliceVars, settled>>

\* Another producer publishes an upload message without a content field
\* (lines 48-50), with the correlation id and reply_to of no pending upload.
publish_upload_without_content ==
    /\ anonCount < MaxAnonymous
    /\ anonCount' = anonCount + 1
    /\ qUpload' = Append(qUpload,
                         [task_id |-> None, reply_to |-> None, content |-> FALSE])
    /\ UNCHANGED <<gwVars, qInit, workQueues, qResults, brokerReply, dispVars,
                   workVars, aggVars, envCount, envResults, envReplies, sliceVars,
                   settled>>

\* handle_upload line 45: the upload's correlation id, or its task_id, or
\* else a fresh uuid4.
UploadCorrelationId(m) ==
    IF m.task_id /= None THEN m.task_id
    ELSE CHOOSE t \in AnonIds :
            /\ disp[t].pc = "idle"
            /\ \A u \in AnonIds : disp[u].pc = "idle" => t <= u

\* DocumentPipeline.persist_sections: what happens to the files.  mkdir in
\* ensure_data_dir (line 101) runs outside the try block, so its OSError
\* leaves the function; an OSError of write_text (lines 106-118) is caught.
PersistOutcomes == {"written", "write_failed", "mkdir_failed"}

\* Whether persist_sections returns after the given outcome.
persist_sections(outcome) == outcome /= "mkdir_failed"

\* A handler without the test of lines 48-50: an upload without content is
\* dispatched like any other.
handle_upload_SkipsContentTest ==
    /\ qUpload /= <<>>
    /\ LET m == Head(qUpload) IN
       /\ qUpload' = Tail(qUpload)
       /\ disp' = [disp EXCEPT ![UploadCorrelationId(m)] =
                      [pc |-> "publishing", reply_to |-> m.reply_to,
                       persist |-> "written"]]
       /\ UNCHANGED settled
    /\ UNCHANGED <<gwVars, qInit, workQueues, qResults, brokerReply, sent, workVars,
                   aggVars, envVars, sliceVars>>

\* handle_upload, lines 43-56: take an upload message; without content the
\* handler returns; extract_parts raises on bytes it cannot parse, which
\* rejects the delivery, and so does persist_sections when it raises;
\* otherwise the handler goes on to publish.
handle_upload ==
    /\ qUpload /= <<>>
    /\ LET m == Head(qUpload) IN
       /\ qUpload' = Tail(qUpload)
       /\ IF ~m.content
          THEN /\ settled' = Acked("document_slicer")
               /\ UNCHANGED disp
          ELSE \/ /\ disp' = [disp EXCEPT ![UploadCorrelationId(m)] =
                               [pc |-> "rejected", reply_to |-> m.reply_to,
                                persist |-> "none"]]
                  /\ settled' = Rejected("document_slicer")
               \/ \E outcome \in PersistOutcomes :
                    /\ disp' = [disp EXCEPT ![UploadCorrelationId(m)] =
                               [pc |-> IF persist_sections(outcome)
                                       THEN "publishing" ELSE "persist_raised",
                                reply_to |-> m.reply_to, persist |-> outcome]]
                    /\ settled' = IF persist_sections(outcome) THEN settled
                                  ELSE Rejected("document_slicer")
    /\ UNCHANGED <<gwVars, qInit, workQueues, qResults, brokerReply, sent, workVars,
                   aggVars, envVars, sliceVars>>

\* handle_upload, lines 58-99: connect_robust or the next _publish_message
\* of the handler for task t raises; the exception leaves message.process()
\* and the delivery is rejected with what was published so far.
handle_upload_publish_raises(t) ==
    /\ disp[t].pc = "publishing"
    /\ disp' = [disp EXCEPT ![t].pc = "publish_raised"]
    /\ settled' = Rejected("document_slicer")
    /\ UNCHANGED <<gwVars, qUpload, qInit, workQueues, qResults, brokerReply, sent,
                   workVars, aggVars, envVars, sliceVars>>

\* handle_upload, lines 62-99: the next _publish_message of the handler for
\* task t.  The econom work item carries the configured sections, which
\* hold a seller (a non-empty part_15) or not.  After the last one the
\* handler returns and the delivery is acknowledged.
handle_upload_publish(t) ==
    /\ disp[t].pc = "publishing"
    /\ LET kind == DispatchOrder[Len(sent[t]) + 1]
           r == disp[t].reply_to IN
       /\ sent' = [sent EXCEPT ![t] = Append(@, kind)]
       /\ disp' = [disp EXCEPT ![t].pc =
                      IF Len(sent[t]) + 1 = Len(DispatchOrder) THEN "done" ELSE @]
       /\ settled' = IF Len(sent[t]) + 1 = Len(DispatchOrder)
                     THEN Acked("document_slicer") ELSE settled
       /\ qInit' = IF kind = "init"
                   THEN Append(qInit, [task_id |-> t, reply_to |-> r,
                                       expected_services |-> expected_services])
                   ELSE qInit
       /\ qLegal' = IF kind = "ai_legal" THEN Append(qLegal, WorkItem(t, r))
                    ELSE qLegal
       /\ IF kind = "ai_econom"
          THEN \E seller \in BOOLEAN :
                 qEconom' = Append(qEconom, [task_id |-> t, reply_to |-> r,
                                             part_15 |-> seller])
          ELSE UNCHANGED qEconom
       /\ qExtractor' = IF kind = "contract_extractor"
                        THEN Append(qExtractor, WorkItem(t, r)) ELSE qExtractor
    /\ UNCHANGED <<gwVars, qUpload, qSb, qResults, brokerReply, workVars, aggVars,
                   envVars, sliceVars>>

\* --- the dispatcher's settings and the contents of its work items

\* The dataclass fields of Settings that hold section keys, in the order of
\* the class body (config.py lines 20, 22 and 74).
SettingsFields ==
    <<"ai_econom_sections", "contract_extractor_sections",
      "contract_extractor_sections_legacy">>

\* The names the class body of Settings binds to a property (lines 87-103):
\* data descriptors without setter.
SettingsProperties ==
    {"sections_path", "part_16_path", "contract_extractor_sections",
     "contract_extractor_urls"}

\* default_factory of ai_econom_sections (line 20).
DefaultEconomSections == {"part_16"}

\* default_factory of contract_extractor_sections_legacy (lines 74-85), the
\* same keys as in lines 22-33.
DefaultExtractorSections ==
    {"part_4", "part_5", "part_6", "part_7", "part_11", "part_12", "part_15",
     "part_16"}

\* The value __init__ has for a field: the keyword argument, else what the
\* default_factory returns.
FieldValue(kwargs, f) ==
    IF f \in DOMAIN kwargs THEN kwargs[f]
    ELSE IF f = "ai_econom_sections" THEN DefaultEconomSections
    ELSE DefaultExtractorSections

\* Settings.__init__ as @dataclass(frozen=True) generates it: one
\* object.__setattr__(self, name, value) per field, in order.  Setting a
\* name that the class binds to a property without setter raises
\* AttributeError, whatever the value.
Settings_init(kwargs) ==
    IF \E i \in 1..Len(SettingsFields) : SettingsFields[i] \in SettingsProperties
    THEN [NoSettings EXCEPT !.state = "raised"]
    ELSE [state |-> "built",
          ai_econom_sections |-> FieldValue(kwargs, "ai_econom_sections"),
          contract_extractor_sections_legacy |->
              FieldValue(kwargs, "contract_extractor_sections_legacy")]

\* Settings.contract_extractor_sections, the property (lines 98-100).
contract_extractor_sections(s) == s.contract_extractor_sections_legacy

\* {key: value for key, value in parts.items() if key in keys}
SelectParts(section_map, keys) ==
    [k \in DOMAIN section_map \cap keys |-> section_map[k]]

\* handle_upload lines 75-99: the payloads of the three work items, without
\* their task_id.
WorkItems(section_map, s) ==
    [legal |-> [parts |-> section_map],
     econom |-> [parts |-> SelectParts(section_map, s.ai_econom_sections)],
     extractor |-> [sections |->
                      SelectParts(section_map, contract_extractor_sections(s))]]

\* The keyword arguments of a construction: none (rabbit_worker.main line
\* 103), or other key lists.
SettingsKwargs ==
    {EmptyMap,
     [ai_econom_sections |-> {"part_15", "part_16"}],
     [contract_extractor_sections_legacy |-> {"part_4"}],
     [contract_extractor_sections |-> {"part_4"}]}

\* A settings object handed to handle_upload that Settings.__init__ did not
\* build: any object with the two attributes.
GivenSettings ==
    {[state |-> "given", ai_econom_sections |-> e,
      contract_extractor_sections_legacy |-> x] :
        e \in {DefaultEconomSections, {"part_15", "part_16"}, {}},
        x \in {DefaultExtractorSections, {"part_4"}}}

\* Section maps as serialize returns them: the 17 keys, some with text.
SectionMaps ==
    {[k \in DOMAIN EmptyPayload |-> IF k \in filled THEN <<"a">> ELSE <<>>] :
        filled \in SUBSET {"part_0", "part_4", "part_15", "part_16"}}

\* The dispatcher before its start, with the section map of an upload, and
\* either no settings yet or an object handed over by the caller.
SettingsInit ==
    /\ PipelineInit
    /\ sections = <<>> /\ blocks_html = <<>> /\ spec_result = NoSpecResult
    /\ parts \in SectionMaps
    /\ settings \in {NoSettings} \cup GivenSettings
    /\ work_items = NoItems

\* Settings(**kwargs): rabbit_worker.main line 103 calls it without
\* arguments.
construct_settings ==
    /\ settings = NoSettings
    /\ \E kwargs \in SettingsKwargs : settings' = Settings_init(kwargs)
    /\ UNCHANGED <<gwVars, qUpload, qInit, workQueues, qResults, brokerReply,
                   dispVars, workVars, aggVars, envVars, sections, blocks_html,
                   spec_result, parts, work_items, settled>>

\* handle_upload lines 75-99 with the settings object it was given.
build_work_items ==
    /\ settings.state \in {"built", "given"}
    /\ work_items = NoItems
    /\ work_items' = WorkItems(parts, settings)
    /\ UNCHANGED <<gwVars, qUpload, qInit, workQueues, qResults, brokerReply,
                   dispVars, workVars, aggVars, envVars, sections, blocks_html,
                   spec_result, parts, settings, settled>>

SettingsNext == construct_settings \/ build_work_items

\* The dispatcher's configuration and what its work items carry of a
\* section map.
SettingsSpec == SettingsInit /\ [][SettingsNext]_vars

\* --------------------------------------------------------------- workers

\* A result message {service, payload} with the work item's correlation id
\* and reply_to.
Result(m, service, payload) ==
    [task_id |-> m.task_id, reply_to |-> m.reply_to, service |-> service,
     payload |-> payload]

Bump(counter, t, service) == [counter EXCEPT ![t][service] = @ + 1]

\* ai_legal handle_message: the review runs inside try/except, a failure
\* becomes the payload {error: ...}; the result is published either way,
\* unless the connection or the publish (lines 63-73) raises.
legal_handle_message ==
    /\ qLegal /= <<>>
    /\ LET m == Head(qLegal) IN
       /\ qLegal' = Tail(qLegal)
       /\ consumed' = Bump(consumed, m.task_id, "ai_legal")
       /\ \/ /\ published' = Bump(published, m.task_id, "ai_legal")
             /\ \E ok \in BOOLEAN :
                  qResults' = Append(qResults,
                      Result(m, "ai_legal", IF ok THEN "ok" ELSE "error"))
             /\ settled' = Acked("ai_legal")
          \/ /\ settled' = Rejected("ai_legal")
             /\ UNCHANGED <<published, qResults>>
    /\ UNCHANGED <<gwVars, qUpload, qInit, qEconom, qExtractor, qSb, brokerReply,
                   dispVars, aggVars, envVars, sliceVars>>

\* ai_econom handle_message: parse_spec / analyze run unguarded, so a
\* failure leaves the handler before any publish; otherwise the result is
\* published and, when the parts hold a seller, a work item for the sb queue.
econom_handle_message ==
    /\ qEconom /= <<>>
    /\ LET m == Head(qEconom) IN
       /\ qEconom' = Tail(qEconom)
       /\ consumed' = Bump(consumed, m.task_id, "ai_econom")
       /\ \E ok \in BOOLEAN :
            IF ok
            THEN /\ published' = Bump(published, m.task_id, "ai_econom")
                 /\ qResults' = Append(qResults, Result(m, "ai_econom", "ok"))
                 /\ qSb' = IF m.part_15
                           THEN Append(qSb, WorkItem(m.task_id, m.reply_to))
                           ELSE qSb
                 /\ settled' = Acked("ai_econom")
            ELSE /\ settled' = Rejected("ai_econom")
                 /\ UNCHANGED <<published, qResults, qSb>>
    /\ UNCHANGED <<gwVars, qUpload, qInit, qLegal, qExtractor, brokerReply, dispVars,
                   aggVars, envVars, sliceVars>>

\* contract_extractor handle_message: qa_sections runs unguarded, so a
\* failure leaves the handler before the publish; otherwise the result is
\* published, and nothing else.
extractor_handle_message ==
    /\ qExtractor /= <<>>
    /\ LET m == Head(qExtractor) IN
       /\ qExtractor' = Tail(qExtractor)
       /\ consumed' = Bump(consumed, m.task_id, "contract_extractor")
       /\ \E ok \in BOOLEAN :
            IF ok
            THEN /\ published' = Bump(published, m.task_id, "contract_extractor")
                 /\ qResults' = Append(qResults,
                                       Result(m, "contract_extractor", "ok"))
                 /\ settled' = Acked("contract_extractor")
            ELSE /\ settled' = Rejected("contract_extractor")
                 /\ UNCHANGED <<published, qResults>>
    /\ UNCHANGED <<gwVars, qUpload, qInit, qLegal, qEconom, qSb, brokerReply, dispVars,
                   aggVars, envVars, sliceVars>>

\* ai_sb handle_message line 14: the payload {"seller": seller}.
SbPayload == "{seller}"

\* The fields of an object found under sb_ai in a final envelope: those of
\* the sb worker's payload, or none for the empty default.
SbFields(payload) == IF payload = SbPayload THEN {"seller"} ELSE {}

\* ai_sb handle_message: echoes the seller as the sb_ai result.
sb_handle_message ==
    /\ qSb /= <<>>
    /\ LET m == Head(qSb) IN
       /\ qSb' = Tail(qSb)
       /\ consumed' = Bump(consumed, m.task_id, "sb_ai")
       /\ published' = Bump(published, m.task_id, "sb_ai")
       /\ qResults' = Append(qResults, Result(m, "sb_ai", SbPayload))
       /\ settled' = Acked("sb_ai")
    /\ UNCHANGED <<gwVars, qUpload, qInit, qLegal, qEconom, qExtractor, brokerReply,
                   dispVars, aggVars, envVars, sliceVars>>

\* Uploads published so far, by the gateway or by another producer.
UploadsSoFar == anonCount + Cardinality({t \in GatewayIds : gw[t] /= "idle"})

Next ==
    \/ \E t \in Tasks : UploadsSoFar < MaxUploads /\ upload_document(t)
    \/ \E t \in Tasks : _on_message(t)
    \/ \E t \in Tasks : _await_response_timeout(t)
    \/ UploadsSoFar < MaxUploads /\ publish_anonymous_upload
    \/ handle_upload
    \/ \E t \in Tasks \cup AnonIds : handle_upload_publish(t)
    \/ \E t \in Tasks \cup AnonIds : handle_upload_publish_raises(t)
    \/ legal_handle_message
    \/ econom_handle_message
    \/ extractor_handle_message
    \/ sb_handle_message
    \/ _handle_init
    \/ _handle_result
    \/ \E i \in 1..Len(inflight) : _publish_final(i)
    \/ \E i \in 1..Len(inflight) : _publish_final_raises(i)
    \/ \E i \in 1..Len(inflight) : _handle_result_pop(i)

\* Two uploads made at the same time.
UploadPair == {t \in GatewayIds : t <= 2}

\* The services the messages for the two uploads name.
PairServices == {"ai_legal", "ai_econom"}

\* The payload of a result published for task t: it names its task.
TaskPayload(t) == "partial of task " \o ToString(t)

\* The dispatcher's part for an upload that has been published
\* (handle_upload lines 62-73): an init message with the upload's task id
\* and reply_to, here expecting two services.
PairInit(t) ==
    /\ gw[t] /= "idle"
    /\ envCount < MaxPairMsgs
    /\ qInit = <<>>
    /\ envCount' = envCount + 1
    /\ qInit' = Append(qInit, [task_id |-> t, reply_to |-> t,
                               expected_services |-> PairServices])
    /\ UNCHANGED <<gwVars, qUpload, workQueues, qResults, brokerReply, dispVars,
                   workVars, aggVars, envResults, anonCount, envReplies,
                   sliceVars, settled>>

\* A worker's part for an upload that has been published: a result message
\* with the work item's correlation id and reply_to, whose payload names
\* the task it was computed for.
PairResult(t) ==
    /\ gw[t] /= "idle"
    /\ envCount < MaxPairMsgs
    /\ qResults = <<>>
    /\ envCount' = envCount + 1
    /\ \E s \in PairServices :
         /\ envResults' = [envResults EXCEPT ![t][s] = @ + 1]
         /\ qResults' = Append(qResults,
               [task_id |-> t, reply_to |-> t, service |-> s,
                payload |-> TaskPayload(t)])
    /\ UNCHANGED <<gwVars, qUpload, qInit, workQueues, brokerReply, dispVars,
                   workVars, aggVars, anonCount, envReplies, sliceVars, settled>>

PairNext ==
    \/ \E t \in UploadPair : upload_document(t)
    \/ \E t \in UploadPair : PairInit(t)
    \/ \E t \in UploadPair : PairResult(t)
    \/ _handle_init
    \/ _handle_result
    \/ \E i \in 1..Len(inflight) : _publish_final(i)
    \/ \E i \in 1..Len(inflight) : _handle_result_pop(i)
    \/ \E t \in UploadPair : _on_message(t)
    \/ \E t \in UploadPair : _await_response_timeout(t)

\* Two uploads pending at the gateway at the same time, the messages the
\* dispatcher and the workers publish for them in any order, and the
\* aggregator.
PairSpec == Init /\ [][PairNext]_vars

GatewayNext ==
    \/ \E t \in Tasks : upload_document(t)
    \/ \E t \in Tasks : publish_reply(t)
    \/ \E t \in Tasks : _on_message(t)
    \/ \E t \in Tasks : _await_response_timeout(t)

\* The gateway alone: its uploads, and whatever is published to its reply
\* queues while it waits.
GatewaySpec == Init /\ [][GatewayNext]_vars

DispatchNext ==
    \/ \E t \in DispatchTasks : upload_document(t)
    \/ handle_upload
    \/ \E t \in DispatchTasks : handle_upload_publish(t)

\* The gateway's uploads and the dispatcher's handlers, several at a time,
\* with a broker that accepts every publish; what the dispatcher publishes
\* stays on the queues.
DispatchSpec == Init /\ [][DispatchNext]_vars

PublishNext ==
    \/ \E t \in Tasks : UploadsSoFar < MaxUploads /\ upload_document(t)
    \/ UploadsSoFar < MaxUploads /\ publish_anonymous_upload
    \/ publish_upload_without_content
    \/ handle_upload
    \/ \E t \in Tasks \cup AnonIds : handle_upload_publish(t)
    \/ \E t \in Tasks \cup AnonIds : handle_upload_publish_raises(t)

\* The dispatcher's handler runs from the delivery to the acknowledgement or
\* rejection, for an upload of the gateway or of another producer and for
\* uploads without content, with a broker that can fail any publish.
PublishSpec == Init /\ [][PublishNext]_vars

\* The whole pipeline, from an upload (the gateway's, or another producer's
\* without correlation id) to the final envelope and the gateway's response.
Spec == Init /\ [][Next]_vars

\* ================================================================ claims

\* Nothing is in flight: every queue is empty and no handler is running.
Quiescent ==
    /\ qUpload = <<>> /\ qInit = <<>> /\ qLegal = <<>> /\ qEconom = <<>>
    /\ qExtractor = <<>> /\ qSb = <<>> /\ qResults = <<>>
    /\ inflight = <<>>
    /\ \A t \in TaskIds : disp[t].pc /= "publishing"

\* No worker handler of task t raised: each work item consumed was answered.
NoWorkerRaised(t) == \A s \in Services : published[t][s] = consumed[t][s]

\* C1: an upload answered 200 is an upload for whose task the aggregator
\* emitted exactly one final envelope (otherwise the gateway answers 504).
C1_OneEnvelopePerUpload ==
    \A t \in Tasks : gw[t] = "200" => finalCount[t] = 1

\* C2: once every message of a dispatched task has been consumed and no
\* handler raised, a result with service sb_ai has been published for the
\* task and its final envelope has been emitted.
C2_AggregationTerminates ==
    \A t \in Tasks :
        (Quiescent /\ disp[t].pc = "done" /\ NoWorkerRaised(t) /\ nFail[t] = 0)
            => (published[t]["sb_ai"] >= 1 /\ finalCount[t] >= 1)

\* C3: whatever init and result messages are delivered for a task, repeated
\* results included, at most one final envelope is published for it.
C3_AtMostOneFinal ==
    \A t \in AggTasks : finalCount[t] <= 1

\* Task t got one init naming the four services and one result per service,
\* each with a reply_to, and all of them have been handled to the end.
DeliveredOnce(t) ==
    /\ nInit[t] = 1 /\ everExpected[t] = Services
    /\ \A s \in Services : nRes[t][s] = 1
    /\ ~sawNone[t]
    /\ qInit = <<>> /\ qResults = <<>> /\ inflight = <<>>

\* C4: in whatever order one init and one result per expected service are
\* delivered, exactly one final envelope is emitted and it carries all four
\* payloads.
C4_AnyInterleaving ==
    \A t \in AggTasks :
        DeliveredOnce(t) =>
            /\ finalCount[t] = 1
            /\ lastFinal.task_id = t
            /\ \A s \in Services : lastFinal.result[s] = "ok"

\* C5: a partial handled before the task's init is stored and kept: until
\* an init is handled the state stays in the table with the partial in it
\* and no final envelope is emitted.
C5_PartialKeptUntilInit ==
    \A t \in AggTasks :
        (nInit[t] = 0 /\ ~sawNone[t] /\ \E s \in Services : nRes[t][s] > 0)
            => /\ t \in DOMAIN states
               /\ finalCount[t] = 0
               /\ \A s \in Services :
                    nRes[t][s] > 0 => s \in DOMAIN states[t].results

\* C6: every final envelope is emitted with the state's expected set empty.
C6_EmittedWhenDrained ==
    lastFinal /= NoFinal => lastFinal.expected = {}

\* C7: no task state stays resident once nothing is in flight any more.
C7_NoResidentState ==
    Quiescent => DOMAIN states = {}

\* C8: every worker has published one result message for each work item it
\* consumed.
C8_OneResultPerWorkItem ==
    \A t \in Tasks : \A s \in Services : published[t][s] = consumed[t][s]

\* C9: handlers of one task are serialized: a state is deleted only as the
\* state the final envelope was emitted from, drained and with the results
\* the envelope carries when it was published, so no init and no partial
\* handled during the publish is lost with it.
C9_Serialized ==
    [][\A t \in AggTasks :
          (t \in DOMAIN states /\ t \notin DOMAIN states')
              => /\ states[t].expected = {}
                 /\ (states[t].reply_to /= None =>
                        /\ lastFinal.task_id = t
                        /\ lastFinal.result = _merge_results(states[t].results))]_vars

\* C10: the dispatcher publishes the init message, naming the four expected
\* services, before any work item, and the work items in the order legal,
\* econom, extractor.
C10_InitBeforeWork ==
    \A t \in DispatchTasks :
        /\ \A i \in 1..Len(sent[t]) :
              sent[t][i] = <<"init", "ai_legal", "ai_econom", "contract_extractor">>[i]
        /\ \A i \in 1..Len(qInit) :
              qInit[i].expected_services =
                  {"ai_legal", "ai_econom", "contract_extractor", "sb_ai"}
        /\ \A i \in 1..Len(qLegal) :
              qLegal[i].task_id = t => \E j \in 1..Len(qInit) : qInit[j].task_id = t
        /\ \A i \in 1..Len(qEconom) :
              qEconom[i].task_id = t => \E j \in 1..Len(qLegal) : qLegal[j].task_id = t
        /\ \A i \in 1..Len(qExtractor) :
              qExtractor[i].task_id = t
                  => \E j \in 1..Len(qEconom) : qEconom[j].task_id = t

\* C10 witness: a handler has published all four messages of its task while
\* another upload is still being dispatched.
C10_Witness ==
    \E t, u \in DispatchTasks :
        /\ disp[t].pc = "done" /\ Len(sent[t]) = 4
        /\ disp[u].pc = "publishing" /\ Len(sent[u]) = 1

\* The (correlation id, reply_to) pairs of the messages on queue q.
Carried(q) == {<<q[i].task_id, q[i].reply_to>> : i \in 1..Len(q)}

\* The pairs on every message downstream of the upload: the init, the work
\* items (the sb one included), the results, what the aggregator holds of
\* them, and the final envelopes with the queue they were published to.
Downstream ==
    Carried(qInit) \cup Carried(qLegal) \cup Carried(qEconom)
        \cup Carried(qExtractor) \cup Carried(qSb) \cup Carried(qResults)
        \cup {<<t, states[t].reply_to>> : t \in DOMAIN states}
        \cup Carried(inflight)
        \cup UNION {{<<replyQ[n][i].correlation_id, n>> : i \in 1..Len(replyQ[n])}
                        : n \in TaskIds}
        \cup (IF lastFinal = NoFinal THEN {}
              ELSE {<<lastFinal.task_id, lastFinal.reply_to>>})

\* C11: every message of a task carries the task id the gateway assigned
\* and the gateway's reply queue as reply_to, from the upload to the final
\* envelope; an id drawn by the dispatcher appears only on the messages of
\* an upload that carried none (and these have no reply_to).
C11_TaskIdCarried ==
    /\ \A p \in Carried(qUpload) \cup Downstream :
          /\ p[1] \in GatewayIds => (gw[p[1]] \notin {"idle", "400"} /\ p[2] = p[1])
          /\ p[1] \in AnonIds => (p[2] = None /\ disp[p[1]].pc /= "idle")
    /\ \A p \in Downstream : p[1] /= None
    /\ Cardinality({t \in AnonIds : disp[t].pc /= "idle"}) <= anonCount

\* C11 witness: the gateway answered with the final envelope of an upload
\* whose four results, the cascaded sb one included, were published.
C11_Witness ==
    \E t \in Tasks :
        gw[t] = "200" /\ \A s \in Services : published[t][s] >= 1

\* C12: the sb work item is a cascade of the extractor: a task has an sb
\* work item (on the sb queue or already handled) only once the extractor
\* has published its contract_extractor result for the task.
C12_SbCascadesFromExtractor ==
    \A t \in Tasks \cup AnonIds :
        (consumed[t]["sb_ai"] > 0 \/ \E i \in 1..Len(qSb) : qSb[i].task_id = t)
            => published[t]["contract_extractor"] >= 1

\* C13: once the gateway has answered 504 and its reply queue is deleted,
\* a final envelope emitted later leaves nothing at the broker: no queue of
\* that name and no message for the task.
C13_LateEnvelopeDiscarded ==
    \A t \in Tasks : gw[t] = "504" => (rqKind[t] = "absent" /\ stranded[t] = 0)

\* C14: an upload whose bytes the slicer cannot parse is answered with a
\* client error, never with 200 or 504, and nothing is published for it.
C14_RejectionSynchronous ==
    \A t \in Tasks :
        disp[t].pc = "rejected" => (gw[t] \notin {"200", "504"} /\ sent[t] = <<>>)

\* C15: an upload answered 400 has touched nothing at the broker: no reply
\* queue was declared for it and no upload message published, so no handler
\* ever ran for it.
C15_EmptyBodyRejected ==
    \A t \in DispatchTasks :
        gw[t] = "400" =>
            /\ rqKind[t] = "absent" /\ replyQ[t] = <<>> /\ stranded[t] = 0
            /\ \A i \in 1..Len(qUpload) : qUpload[i].task_id /= t
            /\ disp[t].pc = "idle" /\ sent[t] = <<>>

\* C15 witness: one upload was answered 400 while another, accepted one
\* waits on its reply queue with its upload message published.
C15_Witness ==
    \E t, u \in DispatchTasks :
        /\ gw[t] = "400"
        /\ gw[u] = "waiting" /\ rqKind[u] = "exclusive" /\ disp[u].pc /= "idle"

\* C16: the gateway's wait is resolved by the first message on its reply
\* queue that carries the upload's task id, and by nothing else: the
\* response is that message's body, and until then no message has changed
\* the response.
C16_ResolvedByFirstMatch ==
    \A t \in Tasks :
        /\ gw[t] = "200" =>
              /\ gwResp[t].correlation_id = t
              /\ gwResp[t].nth = envReplies[t].first
        /\ gw[t] /= "200" => gwResp[t] = EmptyMap

\* C16 witness: a wait was resolved after a message with another
\* correlation id had been published to the queue before the first matching
\* one, and a further message after it.
C16_Witness ==
    \E t \in Tasks :
        /\ gw[t] = "200"
        /\ envReplies[t].first > 1
        /\ envReplies[t].total > envReplies[t].first

\* A text without leading or trailing whitespace.
Trimmed(text) ==
    text = <<>> \/ (text[1] \notin Whitespace /\ text[Len(text)] \notin Whitespace)

\* C17: the section map serialize returns has exactly the 17 keys
\* part_0..part_16, and every value is empty or trimmed text.
C17_SeventeenKeys ==
    parts /= NoParts =>
        /\ DOMAIN parts = {"part_0", "part_1", "part_2", "part_3", "part_4",
                           "part_5", "part_6", "part_7", "part_8", "part_9",
                           "part_10", "part_11", "part_12", "part_13", "part_14",
                           "part_15", "part_16"}
        /\ \A k \in DOMAIN parts : Trimmed(parts[k])

\* C17 witness: serialize returned for a chunk with a padded title and a
\* padded specification text, both of which it wrote.
C17_Witness ==
    /\ parts /= NoParts
    /\ \E i \in 1..Len(sections) :
          /\ sections[i].number = 1
          /\ ~Trimmed(sections[i].title) /\ strip(sections[i].title) /= <<>>
    /\ parts["part_1"] /= <<>>
    /\ ~Trimmed(blocks_html) /\ parts["part_16"] /= <<>>

\* The chunks with number k that have text, in order.
ChunksOf(k) ==
    SelectSeq(sections, LAMBDA c : c.number = k /\ _section_to_text(c) /= <<>>)

\* C18 as stated: for k in 1..15, part_k is non-empty iff a chunk with
\* number k and text was found, and it holds the text of the first such
\* chunk only.
C18_FirstWins ==
    parts /= NoParts =>
        \A k \in 1..15 :
            /\ parts[PartKey(k)] /= <<>> <=> ChunksOf(k) /= <<>>
            /\ ChunksOf(k) /= <<>> =>
                  parts[PartKey(k)] = _section_to_text(ChunksOf(k)[1])

\* C18 amended: for k in 1..15, part_k is non-empty iff a chunk with number
\* k and text was found, and it holds the texts of all such chunks in
\* order, separated by a blank line: a later chunk overwrites nothing.
C18_AllKept ==
    parts /= NoParts =>
        \A k \in 1..15 :
            /\ parts[PartKey(k)] /= <<>> <=> ChunksOf(k) /= <<>>
            /\ parts[PartKey(k)] =
                  join(<<"\n", "\n">>,
                       [i \in 1..Len(ChunksOf(k)) |-> _section_to_text(ChunksOf(k)[i])])

\* C18 witness: serialize returned for two chunks with the same number
\* and different texts.
C18_Witness ==
    /\ parts /= NoParts
    /\ Len(ChunksOf(15)) = 2
    /\ _section_to_text(ChunksOf(15)[1]) /= _section_to_text(ChunksOf(15)[2])

\* C19: chunks numbered 0 or above 15 reach no key: part_0 is what the
\* chunks without number alone give, part_k what the chunks numbered k alone
\* give, and part_16 is the specification text and nothing else.
C19_OutOfRangeDropped ==
    parts /= NoParts =>
        /\ \A k \in 0..15 :
              parts[PartKey(k)] =
                  serialize(SelectSeq(sections,
                                LAMBDA c : c.number = IF k = 0 THEN NoNumber ELSE k),
                            <<>>)[PartKey(k)]
        /\ parts["part_16"] = strip(blocks_html)

\* C19 witness: serialize returned for a chunk numbered 0 and a chunk
\* numbered 16, both with text, and a specification text.
C19_Witness ==
    /\ parts /= NoParts
    /\ \E i, j \in 1..Len(sections) :
          /\ sections[i].number = 0 /\ _section_to_text(sections[i]) /= <<>>
          /\ sections[j].number = 16 /\ _section_to_text(sections[j]) /= <<>>
    /\ parts["part_16"] /= <<>>

\* The rows of the tables ts, in order.
RECURSIVE RowsOf(_)
RowsOf(ts) == IF ts = <<>> THEN <<>> ELSE Head(ts) \o RowsOf(Tail(ts))

\* One line "TABLE: " + cells joined by " | " per row, the lines joined by
\* newlines, with Cell applied to each cell.
Rendered(rows, Cell(_)) ==
    join(<<"\n">>,
         [i \in 1..Len(rows) |->
            <<"T", "A", "B", "L", "E", ":", " ">>
                \o join(<<" ", "|", " ">>,
                        [j \in 1..Len(rows[i]) |-> Cell(rows[i][j])])])

\* C20 as stated: part_16 is, for each row of each detected table in order,
\* the line "TABLE: " followed by the row's cells joined by " | ", the lines
\* joined by newlines, and nothing else.
C20_CellsJoined ==
    parts /= NoParts /\ ~spec_result.raised =>
        parts["part_16"] = Rendered(RowsOf(spec_result.tables), LAMBDA c : c)

\* C20 amended: part_16 is, for each row of each detected table in order,
\* the line "TABLE: " followed by the row's cells, each stripped of
\* surrounding whitespace, joined by " | "; the lines are joined by newlines
\* and the whole text is stripped of surrounding whitespace.
C20_StrippedCellsJoined ==
    parts /= NoParts /\ ~spec_result.raised =>
        parts["part_16"] =
            strip(Rendered(RowsOf(spec_result.tables), LAMBDA c : strip(c)))

\* C20 witness: extract_parts returned for two tables of one row each, with
\* a padded cell, the last cell of the last row being empty.
C20_Witness ==
    /\ parts /= NoParts /\ ~spec_result.raised
    /\ Len(spec_result.tables) = 2
    /\ \A i \in 1..2 : Len(spec_result.tables[i]) = 1
    /\ LET first == spec_result.tables[1][1]
           last == spec_result.tables[2][1] IN
       /\ Len(first) = 2 /\ ~Trimmed(first[1]) /\ strip(first[1]) /= <<>>
       /\ Len(last) = 2 /\ last[2] = <<>>

\* The result object as the claim describes it: the four fixed keys and the
\* tags of the received partials, each holding the received payload, or the
\* empty object where nothing was received.
Overlaid(received) ==
    [k \in {"ai_legal", "ai_econom", "sb_ai", "contract_extractor"}
            \cup DOMAIN received |->
        IF k \in DOMAIN received THEN received[k] ELSE "{}"]

\* C21: the result object of every final envelope is the four fixed keys
\* with empty-object defaults overlaid with the partials received: a service
\* without partial is an empty object, a received one holds its payload, and
\* a partial with an unknown tag is kept under its own tag.
C21_DefaultsOverlaid ==
    lastFinal /= NoFinal => lastFinal.result = Overlaid(lastFinal.received)

\* C21 witness: an envelope was emitted from a state that had received a
\* partial of a known service and one with an unknown tag, and no partial of
\* another known service.
C21_Witness ==
    /\ lastFinal /= NoFinal
    /\ "ai_legal" \in DOMAIN lastFinal.received
    /\ OtherService \in DOMAIN lastFinal.received
    /\ "ai_econom" \notin DOMAIN lastFinal.received

\* C22: once an init message with expected_services = [] and a reply_to
\* has been handled for a task that has received nothing else, the task's
\* final envelope has been emitted or is being published.
C22_EmptyInitEmits ==
    \A t \in TaskIds :
        (/\ nInit[t] >= 1 /\ everExpected[t] = {} /\ ~sawNone[t]
         /\ \A s \in ServiceTags : nRes[t][s] = 0)
            => \/ finalCount[t] >= 1
               \/ \E i \in 1..Len(inflight) : inflight[i].task_id = t

\* The payload of the n-th result message published for a service.
NthPayload(n) == IF n = 1 THEN "ok" ELSE "again"

\* C23: duplicate partials of a service overwrite, the last one wins, and
\* they add no key: a state holds for each service the payload of the last
\* result handled for it, and an envelope emitted from the state in the
\* table has the four fixed keys and the tags received, each received one
\* with the payload of the last duplicate handled before the emission.
C23_LastWriteWins ==
    /\ \A t \in DOMAIN states : \A s \in DOMAIN states[t].results :
          /\ nRes[t][s] >= 1
          /\ states[t].results[s] = NthPayload(nRes[t][s])
    /\ (lastFinal /= NoFinal /\ lastFinal.live) =>
          /\ DOMAIN lastFinal.result
                = {"ai_legal", "ai_econom", "sb_ai", "contract_extractor"}
                    \cup {s \in ServiceTags : s \in DOMAIN lastFinal.received}
          /\ \A s \in DOMAIN lastFinal.received :
                lastFinal.result[s] = NthPayload(lastFinal.seen[s])

\* C23 witness: the first envelope of a task was emitted after an init and
\* two partials of one expected service, and carries the second payload.
C23_Witness ==
    /\ lastFinal /= NoFinal /\ lastFinal.live
    /\ nInit[lastFinal.task_id] >= 1 /\ finalCount[lastFinal.task_id] = 1
    /\ lastFinal.seen["ai_legal"] = 2
    /\ lastFinal.result["ai_legal"] = "again"
    /\ lastFinal.result["ai_econom"] = "ok"

\* C24: no reply queue is ever declared durable: a queue under the name of
\* a reply queue exists at the broker only as the gateway's exclusive,
\* auto-deleted queue.
C24_ReplyQueuesNotDurable ==
    \A n \in TaskIds : rqKind[n] \in {"absent", "exclusive"}

\* C25: persisting the section map is best-effort: whatever I/O error the
\* dispatcher met while preparing the data directory or writing the files,
\* its handler went on to publish the init and the work items.
C25_PersistBestEffort ==
    \A t \in DispatchTasks :
        disp[t].persist \in {"write_failed", "mkdir_failed"}
            => disp[t].pc \in {"publishing", "done"}

\* The econom worker answered the work item of task t and found no seller:
\* no sb work item was published for the task.
NoSellerFound(t) ==
    /\ published[t]["ai_econom"] >= 1
    /\ consumed[t]["sb_ai"] = 0
    /\ \A i \in 1..Len(qSb) : qSb[i].task_id /= t

\* C26: the sb_ai object of a final envelope reflects the seller check, so
\* it has a status field (1 for a seller the check matched, 0 in the stub
\* for no seller): whenever the envelope holds the sb worker's partial, or
\* was emitted for a task without seller.
C26_SbStatus ==
    lastFinal /= NoFinal =>
        (("sb_ai" \in DOMAIN lastFinal.received \/ NoSellerFound(lastFinal.task_id))
            => "status" \in SbFields(lastFinal.result["sb_ai"]))

\* A step in which the aggregator handles an init message: the head of the
\* aggregation queue is taken and it names a task.
InitHandled ==
    /\ qInit /= <<>> /\ qInit' = Tail(qInit)
    /\ Head(qInit).task_id /= None

\* C27: handling an init publishes no final envelope and deletes no state.
\* Without a state for the task it creates one with expected =
\* set(expected_services), the message's reply_to and no results; with one
\* it replaces reply_to only by a non-null one, unions expected with the
\* incoming set and leaves the results as they are.  No other task's state
\* changes.
C27_InitFrame ==
    [][InitHandled =>
          LET m == Head(qInit) IN
            /\ finalCount' = finalCount /\ lastFinal' = lastFinal
            /\ inflight' = inflight
            /\ DOMAIN states' = DOMAIN states \cup {m.task_id}
            /\ \A t \in DOMAIN states : t /= m.task_id => states'[t] = states[t]
            /\ IF m.task_id \notin DOMAIN states
               THEN /\ states'[m.task_id].expected = m.expected_services
                    /\ states'[m.task_id].reply_to = m.reply_to
                    /\ states'[m.task_id].results = << >>
               ELSE /\ states'[m.task_id].expected
                          = states[m.task_id].expected \cup m.expected_services
                    /\ states'[m.task_id].reply_to
                          = (IF m.reply_to /= None THEN m.reply_to
                             ELSE states[m.task_id].reply_to)
                    /\ states'[m.task_id].results = states[m.task_id].results]_vars

\* C27 witness: two inits were handled for a task, one of the task's
\* messages came without reply_to, and the task's state still holds a
\* reply_to, a partial and expected services, with no envelope emitted.
C27_Witness ==
    \E t \in DOMAIN states :
        /\ nInit[t] = 2 /\ sawNone[t]
        /\ states[t].reply_to = t
        /\ states[t].expected /= {} /\ DOMAIN states[t].results /= {}
        /\ finalCount[t] = 0

\* A step in which the aggregator starts handling a partial: the head of
\* the results queue is taken and it names a task and a service.
ResultHandled ==
    /\ qResults /= <<>> /\ qResults' = Tail(qResults)
    /\ Head(qResults).task_id /= None /\ Head(qResults).service /= NoService

\* A step in which a result handler returns after its publish.
ResultCompleted ==
    /\ Len(inflight') = Len(inflight) - 1
    /\ nFail' = nFail

\* C28: handling a partial stores the payload under its service and removes
\* the service from expected; when expected is then empty the handler skips
\* the publish without reply_to and deletes the state at once, and otherwise
\* goes on to publish the envelope to reply_to; an envelope is emitted only
\* that way, and when a handler that published returns, no state of its
\* task is left in the table.
C28_StoredThenDeleted ==
    /\ [][ResultHandled =>
            LET m == Head(qResults)
                t == m.task_id
                before == IF t \in DOMAIN states THEN states[t].expected ELSE {}
                reply == IF m.reply_to /= None \/ t \notin DOMAIN states
                         THEN m.reply_to ELSE states[t].reply_to
            IN  /\ t \in DOMAIN states' =>
                      /\ m.service \in DOMAIN states'[t].results
                      /\ states'[t].results[m.service] = m.payload
                      /\ states'[t].expected = before \ {m.service}
                /\ (before \ {m.service} = {} /\ reply = None) =>
                      (t \notin DOMAIN states' /\ Len(inflight') = Len(inflight))
                /\ (before \ {m.service} = {} /\ reply /= None) =>
                      /\ Len(inflight') = Len(inflight) + 1
                      /\ inflight'[Len(inflight')].task_id = t
                      /\ inflight'[Len(inflight')].reply_to = reply
                /\ before \ {m.service} /= {} =>
                      (t \in DOMAIN states' /\ inflight' = inflight)
                /\ finalCount' = finalCount]_vars
    /\ [][finalCount' /= finalCount =>
            \E i \in 1..Len(inflight) :
                /\ inflight[i].pc = "declare"
                /\ lastFinal'.task_id = inflight[i].task_id
                /\ lastFinal'.reply_to = inflight[i].reply_to
                /\ lastFinal'.reply_to /= None]_vars
    /\ [][ResultCompleted =>
            \E i \in 1..Len(inflight) :
                /\ inflight[i].pc = "publish"
                /\ finalCount[inflight[i].task_id] >= 1
                /\ inflight[i].task_id \notin DOMAIN states']_vars

\* C28 witness: after an init expecting two services and their two
\* partials, the envelope was emitted with both, the handler returned and
\* the task's state is gone.
C28_Witness ==
    \E t \in TaskIds :
        /\ nInit[t] >= 1 /\ finalCount[t] = 1
        /\ lastFinal.task_id = t /\ lastFinal.expected = {}
        /\ DOMAIN lastFinal.received = {"ai_legal", "ai_econom"}
        /\ inflight = <<>> /\ nFail[t] = 0
        /\ t \notin DOMAIN states

Numbered(k) == SelectSeq(sections, LAMBDA c : c.number = k)

\* A chunk with text in both its title and its body.
TitleAndBody(c) == strip(c.title) /= <<>> /\ strip(c.content) /= <<>>

\* part_k for the one chunk numbered k with title and body, and part_0 for
\* the one chunk without number and without title, given the separator
\* between title and body.
TitleThenBody(sep) ==
    parts /= NoParts =>
        /\ \A k \in 1..15 :
              (Len(Numbered(k)) = 1 /\ TitleAndBody(Numbered(k)[1])) =>
                  parts[PartKey(k)] = strip(Numbered(k)[1].title) \o sep
                                          \o strip(Numbered(k)[1].content)
        /\ (Len(Numbered(NoNumber)) = 1 /\ Numbered(NoNumber)[1].title = <<>>) =>
              parts["part_0"] = strip(Numbered(NoNumber)[1].content)

\* C30 as stated: for a numbered section with title and body, part_k is the
\* title line, a blank line, then the body; part_0 is the header chunk's
\* text.
C30_TitleBlankLineBody == TitleThenBody(<<"\n", "\n">>)

\* C30 amended: for a numbered section with title and body, part_k is the
\* trimmed title, one newline, then the trimmed body, with no blank line
\* between them; part_0 is the header chunk's text.
C30_TitleNewlineBody == TitleThenBody(<<"\n">>)

\* C30 witness: serialize returned for one chunk numbered 1 with a title
\* and a body and one header chunk with a body.
C30_Witness ==
    /\ parts /= NoParts
    /\ Len(Numbered(1)) = 1 /\ TitleAndBody(Numbered(1)[1])
    /\ Len(Numbered(NoNumber)) = 1 /\ Numbered(NoNumber)[1].title = <<>>
    /\ parts["part_0"] /= <<>> /\ parts["part_1"] /= <<>>

\* C31: when the detection or the rendering of the specification tables
\* raised, extract_parts still returns the 17-key map, part_16 is the empty
\* text and part_0..part_15 are what they are for the same chunks without
\* the failure.
C31_ExtractFailureIsEmpty ==
    parts /= NoParts /\ spec_result.raised =>
        /\ DOMAIN parts = {PartKey(index) : index \in 0..16}
        /\ parts["part_16"] = <<>>
        /\ \A index \in 0..15 :
              parts[PartKey(index)] =
                serialize(sections, join(<<"\n">>, TableLines(spec_result.tables)))
                    [PartKey(index)]

\* C31 witness: extract_parts returned after an exception raised while a row
\* with a cell was rendered, for a document with a numbered section.
C31_Witness ==
    /\ parts /= NoParts /\ spec_result.raised
    /\ \E i \in 1..Len(spec_result.tables) :
         \E j \in 1..Len(spec_result.tables[i]) :
            \E c \in 1..Len(spec_result.tables[i][j]) :
                strip(spec_result.tables[i][j][c]) /= <<>>
    /\ parts["part_1"] /= <<>>

\* The result handlers of the aggregator suspended at the given await.
Suspended(hs, pc) == Cardinality({i \in DOMAIN hs : hs[i].pc = pc})

\* The step settles one more delivery of the consumer as acknowledged.
Acknowledges(consumer) == settled'[consumer].acked = settled[consumer].acked + 1

\* The step settles one more delivery of the consumer as rejected, and
\* acknowledges none of its deliveries.
Rejects(consumer) ==
    /\ settled'[consumer].rejected = settled[consumer].rejected + 1
    /\ settled'[consumer].acked = settled[consumer].acked

\* C32: a consumer acknowledges a delivery only in the step in which its
\* handler returns with every publish made: a worker with its result on the
\* results queue, the dispatcher with the fourth of its messages sent (or at
\* once for an upload without content), the aggregator's result handler
\* with no publish begun or with its publish returned.  A handler that
\* raises (a worker that consumed without publishing, a dispatcher that
\* stopped, a failed _publish_final) has its delivery rejected instead.
C32_AckAfterSuccess ==
    [][/\ \A w \in Services :
            /\ Acknowledges(w) =>
                  \E t \in TaskIds :
                     /\ published'[t][w] = published[t][w] + 1
                     /\ Len(qResults') = Len(qResults) + 1
                     /\ qResults'[Len(qResults')].service = w
                     /\ qResults'[Len(qResults')].task_id = t
            /\ (\E t \in TaskIds :
                    /\ consumed'[t][w] = consumed[t][w] + 1
                    /\ published'[t][w] = published[t][w]) => Rejects(w)
       /\ Acknowledges("document_slicer") =>
            \/ qUpload /= <<>> /\ ~Head(qUpload).content /\ qUpload' = Tail(qUpload)
            \/ \E t \in TaskIds :
                  /\ disp[t].pc = "publishing" /\ disp'[t].pc = "done"
                  /\ sent'[t] = DispatchOrder
       /\ (\E t \in TaskIds :
              /\ disp'[t].pc \in {"rejected", "persist_raised", "publish_raised"}
              /\ disp[t].pc /= disp'[t].pc) => Rejects("document_slicer")
       /\ Acknowledges("_handle_init") => qInit /= <<>> /\ qInit' = Tail(qInit)
       /\ Acknowledges("_handle_result") =>
            /\ Suspended(inflight', "declare") = Suspended(inflight, "declare")
            /\ \/ /\ qResults /= <<>> /\ qResults' = Tail(qResults)
                  /\ Len(inflight') = Len(inflight)
               \/ /\ qResults' = qResults
                  /\ Len(inflight') = Len(inflight) - 1
                  /\ Suspended(inflight', "publish") = Suspended(inflight, "publish") - 1
       /\ (\E t \in TaskIds : nFail'[t] = nFail[t] + 1) =>
            /\ Rejects("_handle_result")
            /\ Suspended(inflight', "declare") = Suspended(inflight, "declare") - 1
            /\ finalCount' = finalCount
      ]_vars

\* C32 witness: a worker's delivery was rejected with no result published,
\* another worker's was acknowledged, the dispatcher's delivery was
\* acknowledged after its four messages, and the aggregator rejected a
\* result delivery whose envelope it could not publish.
C32_Witness ==
    /\ settled["ai_econom"].rejected = 1 /\ settled["ai_econom"].acked = 0
    /\ \A t \in TaskIds : published[t]["ai_econom"] = 0
    /\ settled["ai_legal"].acked = 1
    /\ settled["document_slicer"].acked = 1
    /\ settled["_handle_result"].rejected >= 1

\* The deliveries handed to the dispatcher and not yet settled: its handlers
\* suspended between two publishes.
UnackedUploads == Cardinality({t \in TaskIds : disp[t].pc = "publishing"})

\* C33: the dispatcher's consumer has a prefetch bound, a positive integer
\* smaller than the number of uploads published here, and the deliveries
\* handed to it and not yet settled never exceed that bound.
C33_UnackedWithinPrefetch == UnackedUploads < MaxDispatch

\* C34: of two uploads made at the same time each has its own task id and
\* waits on its own exclusive reply queue, named in its upload message; only
\* envelopes of its own task reach that queue, and a response is the final
\* envelope with the upload's own task id and payloads of that task only.
C34_OwnEnvelope ==
    /\ \A i \in 1..Len(qUpload) :
          /\ qUpload[i].reply_to = qUpload[i].task_id
          /\ \A j \in 1..Len(qUpload) : i /= j => qUpload[i].task_id /= qUpload[j].task_id
    /\ \A t \in UploadPair :
          /\ gw[t] = "waiting" => rqKind[t] = "exclusive"
          /\ \A i \in 1..Len(replyQ[t]) :
                /\ replyQ[t][i].correlation_id = t
                /\ replyQ[t][i].body.task_id = t
          /\ gw[t] = "200" =>
                /\ gwResp[t].task_id = t
                /\ \A s \in DOMAIN gwResp[t].result :
                      gwResp[t].result[s] \in {EmptyObj, TaskPayload(t)}

\* C34 witness: both uploads were pending; the later one has its response,
\* holding a partial of its task, while the earlier one still waits with
\* its own envelope on its queue.
C34_Witness ==
    \E t, u \in UploadPair :
        /\ t < u
        /\ gw[t] = "waiting" /\ replyQ[t] /= <<>>
        /\ gw[u] = "200" /\ gwResp[u].result["ai_legal"] = TaskPayload(u)

\* C35: in every aggregation state the expected set and the services stored
\* in results are disjoint: no init puts back a service whose partial has
\* been received.
C35_ExpectedDisjointFromResults ==
    \A t \in DOMAIN states :
        states[t].expected \cap DOMAIN states[t].results = {}

\* The step is a result handler of task t leaving _publish_final by an
\* exception.
PublishFinalRaised(t) == nFail'[t] = nFail[t] + 1

\* C36: when _publish_final raises for a task, the task's state stays in the
\* table with its partials recorded and expected empty, the delivery is
\* rejected, and no envelope is published by that step: a later envelope
\* for the task is published only by a handler of another result.
C36_FailedPublishKeepsState ==
    [][\A t \in TaskIds :
          PublishFinalRaised(t) =>
            /\ t \in DOMAIN states'
            /\ states'[t].expected = {}
            /\ states'[t].results /= EmptyMap
            /\ Rejects("_handle_result")
            /\ finalCount' = finalCount
            /\ qResults' = qResults
      ]_vars

\* The aggregation state of every task but a is left as it is by the step.
OthersUntouched(a) ==
    \A b \in TaskIds \ {a} :
        /\ b \in DOMAIN states' <=> b \in DOMAIN states
        /\ b \in DOMAIN states => states'[b] = states[b]

\* C37: a step of the aggregator that handles an init or a result of task a
\* (from the delivery to the pop after the publish) leaves the expected set,
\* results and reply_to of every other task unchanged, and an envelope
\* published for a task holds only payloads received with that task's id.
C37_OwnTaskOnly ==
    [][/\ (qInit /= <<>> /\ qInit' = Tail(qInit)) =>
            OthersUntouched(Head(qInit).task_id)
       /\ (qResults /= <<>> /\ qResults' = Tail(qResults)) =>
            OthersUntouched(Head(qResults).task_id)
       /\ (inflight' /= inflight /\ qResults' = qResults) =>
            \E i \in DOMAIN inflight : OthersUntouched(inflight[i].task_id)
       /\ lastFinal' /= lastFinal =>
            /\ \A s \in DOMAIN lastFinal'.received :
                  lastFinal'.received[s] = TaskPayload(lastFinal'.task_id)
            /\ \A s \in DOMAIN lastFinal'.result :
                  lastFinal'.result[s] \in {EmptyObj, TaskPayload(lastFinal'.task_id)}
      ]_vars

\* C37 witness: an envelope with a partial was published for one task while
\* the state of the other task, holding a partial of its own and waiting
\* for a service, is in the table.
C37_Witness ==
    \E a, b \in UploadPair :
        /\ a /= b
        /\ lastFinal.task_id = a /\ lastFinal.received /= EmptyMap
        /\ a \notin DOMAIN states
        /\ b \in DOMAIN states
        /\ states[b].results /= EmptyMap /\ states[b].expected /= {}

\* The step leaves the aggregator's table, its suspended handlers and the
\* envelopes published as they are.
NoAggregationEffect ==
    /\ states' = states /\ inflight' = inflight
    /\ finalCount' = finalCount /\ lastFinal' = lastFinal
    /\ replyQ' = replyQ /\ rqKind' = rqKind

\* C38: an init that names no task, and a result that names no task or no
\* service, is acknowledged, creates or changes no aggregation state and
\* causes no final envelope.
C38_UnattributableDropped ==
    [][/\ (qInit /= <<>> /\ qInit' = Tail(qInit) /\ Head(qInit).task_id = None) =>
            Acknowledges("_handle_init") /\ NoAggregationEffect
       /\ (/\ qResults /= <<>> /\ qResults' = Tail(qResults)
           /\ (Head(qResults).task_id = None \/ Head(qResults).service = NoService)) =>
            Acknowledges("_handle_result") /\ NoAggregationEffect
      ]_vars

\* C38 witness: beside the task's init, an init and a result that cannot be
\* attributed have been handled and acknowledged; the task's state is as
\* its init made it and no envelope was published.
C38_Witness ==
    /\ qInit = <<>> /\ qResults = <<>>
    /\ nInit[MergeTask] = 1 /\ settled["_handle_init"].acked = 2
    /\ \A s \in ServiceTags : nRes[MergeTask][s] = 0
    /\ settled["_handle_result"].acked = 1
    /\ MergeTask \in DOMAIN states
    /\ states[MergeTask].expected = {"ai_legal", "ai_econom"}
    /\ states[MergeTask].results = EmptyMap
    /\ finalCount[MergeTask] = 0

\* The messages of task t on queue q.
MessagesOf(q, t) == Cardinality({i \in 1..Len(q) : q[i].task_id = t})

\* C39: an upload without content is acknowledged and nothing is published
\* for it; for every task the dispatcher has published nothing, or the init
\* first and then, unless its handler is still publishing or a publish
\* raised, the legal, econom and extractor work items, one of each; a run
\* that ended normally published all four.
C39_AllFourOrNone ==
    [][/\ (qUpload /= <<>> /\ qUpload' = Tail(qUpload) /\ ~Head(qUpload).content) =>
            /\ Acknowledges("document_slicer")
            /\ disp' = disp /\ sent' = sent
            /\ qInit' = qInit /\ qLegal' = qLegal /\ qEconom' = qEconom
            /\ qExtractor' = qExtractor
       /\ \A t \in TaskIds :
            /\ disp'[t].pc \in {"idle", "rejected", "persist_raised"} => sent'[t] = <<>>
            /\ disp'[t].pc = "done" => sent'[t] = DispatchOrder
            /\ sent'[t] /= <<>> =>
                  /\ sent'[t][1] = "init"
                  /\ \/ disp'[t].pc \in {"publishing", "publish_raised"}
                     \/ sent'[t] = <<"init", "ai_legal", "ai_econom", "contract_extractor">>
            /\ MessagesOf(qInit', t) = (IF sent'[t] /= <<>> THEN 1 ELSE 0)
            /\ MessagesOf(qLegal', t) = (IF Len(sent'[t]) >= 2 THEN 1 ELSE 0)
            /\ MessagesOf(qEconom', t) = (IF Len(sent'[t]) >= 3 THEN 1 ELSE 0)
            /\ MessagesOf(qExtractor', t) = (IF Len(sent'[t]) >= 4 THEN 1 ELSE 0)
      ]_vars

\* C39 witness: an upload without content and the gateway's upload have
\* both been handled and acknowledged; the queues hold the init and the
\* three work items of the gateway's task and nothing else.
C39_Witness ==
    /\ qUpload = <<>> /\ anonCount = 1
    /\ settled["document_slicer"] = [acked |-> 2, rejected |-> 0]
    /\ \E t \in Tasks :
         /\ disp[t].pc = "done" /\ Len(sent[t]) = 4
         /\ Len(qInit) = 1 /\ qInit[1].task_id = t
         /\ Len(qLegal) = 1 /\ Len(qEconom) = 1 /\ Len(qExtractor) = 1

====
